---------------------------- MODULE Spec2Model ----------------------------
(***************************************************************************)
(* Model of server.js: an Express backend with two handlers over one S3    *)
(* bucket.  GET /weather reads the object daily-data/prediction.json,      *)
(* parses it as JSON and sends it back; POST /subscribe validates the      *)
(* `email` field of the JSON body and writes it to subscribers/<sanitized>.*)
(*                                                                         *)
(* Strings are sequences of UTF-16 code units (here: ASCII codes), so that *)
(* the regular expression of line 109 and JSON.parse / JSON.stringify are  *)
(* computed character by character.                                        *)
(***************************************************************************)
EXTENDS Integers, Sequences, FiniteSets, TLC

(***************************************************************************)
(* Bounds of the model.                                                    *)
(***************************************************************************)
\* number of HTTP requests the clients send in one behaviour
NumReq == 2
\* longest `email` string a client sends to POST /subscribe
MaxEmailLen == 2
\* longest input string of the sanitization specification
MaxStrLen == 2

(***************************************************************************)
(* Program constants (server.js lines 23 and 25).                          *)
(***************************************************************************)
\* 'daily-data/prediction.json'
WEATHER_FILE_KEY == <<100, 97, 105, 108, 121, 45, 100, 97, 116, 97, 47, 112, 114, 101, 100, 105, 99, 116, 105, 111, 110, 46, 106, 115, 111, 110>>
\* 'subscribers/'
SUBSCRIPTIONS_PATH == <<115, 117, 98, 115, 99, 114, 105, 98, 101, 114, 115, 47>>

(***************************************************************************)
(* Sanitization: email.replace(/[^a-zA-Z0-9-_.@]/g, '')  (line 109).       *)
(* In the class, a-z, A-Z and 0-9 are ranges; the '-' after 0-9 cannot     *)
(* start a range and is a literal, as are '_', '.' and '@'.                *)
(***************************************************************************)
\* the class with "9-_" read as a range from '9' to '_' (a plausible slip)
InClassDashRange(c) ==
    \/ (c >= 97 /\ c <= 122)
    \/ (c >= 65 /\ c <= 90)
    \/ (c >= 48 /\ c <= 57)
    \/ (c >= 57 /\ c <= 95)
    \/ c = 46
    \/ c = 64

\* c is matched by [a-zA-Z0-9-_.@]
InClass(c) ==
    \/ (c >= 97 /\ c <= 122)
    \/ (c >= 65 /\ c <= 90)
    \/ (c >= 48 /\ c <= 57)
    \/ c = 45
    \/ c = 95
    \/ c = 46
    \/ c = 64

\* String.prototype.replace with a global one-character pattern and '' as
\* the replacement: every code unit the negated class matches is deleted.
RECURSIVE ReplaceAll(_)
ReplaceAll(s) ==
    IF s = <<>> THEN <<>>
    ELSE IF InClass(Head(s)) THEN <<Head(s)>> \o ReplaceAll(Tail(s))
         ELSE ReplaceAll(Tail(s))

\* const sanitizedEmail = email.replace(...)
sanitizedEmail(email) == ReplaceAll(email)

\* the sanitized copy sent as the object's content (a plausible slip)
BodyOfSanitized(email) == sanitizedEmail(email)

\* Body: email  (line 117)
BodyOf(email) == email

\* const s3Key = `${SUBSCRIPTIONS_PATH}${sanitizedEmail}`
s3Key(email) == SUBSCRIPTIONS_PATH \o sanitizedEmail(email)

(***************************************************************************)
(* JSON.parse (line 79), on the part of the JSON grammar the stored         *)
(* documents of this model use (no white space, no escapes, no negative    *)
(* number, no true, false or array):                                       *)
(*   value  = null, number, string or object                               *)
(*   number = 0 or a digit run without leading 0, then optionally a point  *)
(*            and a digit run, then optionally e or E, an optional sign    *)
(*            and a digit run                                              *)
(*   string = a quote, units >= 32 other than quote and backslash, a quote *)
(*   object = { } around comma-separated  string : value  members          *)
(* A JavaScript value is a record tagged by t.                             *)
(***************************************************************************)
JSNull == [t |-> "null"]
JSString(s) == [t |-> "string", s |-> s]
JSObject(members) == [t |-> "object", members |-> members]
\* a finite double m * 10^e (m without trailing zeros), or Infinity
JSFinite(m, e) == [t |-> "number", fin |-> TRUE, m |-> m, e |-> e]
JSInfinity == [t |-> "number", fin |-> FALSE, m |-> 0, e |-> 0]

ParseFail == [ok |-> FALSE, val |-> JSNull, next |-> 0]
ParseOk(v, n) == [ok |-> TRUE, val |-> v, next |-> n]

IsDigit(c) == c >= 48 /\ c <= 57

\* the index after the run of digits that starts at i
RECURSIVE ScanDigits(_, _)
ScanDigits(s, i) ==
    IF i <= Len(s) /\ IsDigit(s[i]) THEN ScanDigits(s, i + 1) ELSE i

\* the value of the digits s[i..j-1]
RECURSIVE DigitsValue(_, _, _)
DigitsValue(s, i, j) ==
    IF j <= i THEN 0 ELSE DigitsValue(s, i, j - 1) * 10 + (s[j - 1] - 48)

RECURSIVE NumDigits(_)
NumDigits(n) == IF n < 10 THEN 1 ELSE 1 + NumDigits(n \div 10)

RECURSIVE Pow10(_)
Pow10(k) == IF k <= 0 THEN 1 ELSE 10 * Pow10(k - 1)

\* m * 10^e with the trailing zeros of m moved into the exponent
RECURSIVE StripZeros(_, _)
StripZeros(m, e) ==
    IF m # 0 /\ m % 10 = 0 THEN StripZeros(m \div 10, e + 1) ELSE <<m, e>>

\* The double nearest to m * 10^e, for a literal of at most three
\* significant digits (the shortest digits that read back as that double are
\* then the literal's own).  The largest double is 1.7976931348623157e308: a
\* literal rounds to Infinity from 1.8e308 on, and to 0 below 1e-324.
ToDouble(m, e) ==
    IF m = 0 THEN JSFinite(0, 0)
    ELSE LET z == StripZeros(m, e)
             k == NumDigits(z[1])
             n == k + z[2]
             lead3 == z[1] * Pow10(3 - k)
         IN  IF n > 309 \/ (n = 309 /\ lead3 >= 180) THEN JSInfinity
             ELSE IF n < -323 THEN JSFinite(0, 0)
             ELSE JSFinite(z[1], z[2])

ParseNumber(s, i) ==
    LET j == IF s[i] = 48 THEN i + 1 ELSE ScanDigits(s, i)
        hasFrac == j <= Len(s) /\ s[j] = 46
        f == IF hasFrac THEN ScanDigits(s, j + 1) ELSE j
        fracLen == IF hasFrac THEN f - (j + 1) ELSE 0
        m == DigitsValue(s, i, j) * Pow10(fracLen) + DigitsValue(s, j + 1, f)
        hasExp == f <= Len(s) /\ s[f] \in {101, 69}
        signed == hasExp /\ f + 1 <= Len(s) /\ s[f + 1] \in {43, 45}
        d == IF signed THEN f + 2 ELSE f + 1
        k == ScanDigits(s, d)
        x == IF signed /\ s[f + 1] = 45 THEN 0 - DigitsValue(s, d, k) ELSE DigitsValue(s, d, k)
    IN  IF hasFrac /\ fracLen = 0 THEN ParseFail
        ELSE IF ~hasExp THEN ParseOk(ToDouble(m, 0 - fracLen), f)
        ELSE IF k = d THEN ParseFail
        ELSE ParseOk(ToDouble(m, x - fracLen), k)

\* the index of the closing quote of the string whose content starts at i,
\* or 0 when the string is not terminated or holds an unsupported unit
RECURSIVE ScanString(_, _)
ScanString(s, i) ==
    IF i > Len(s) THEN 0
    ELSE IF s[i] = 34 THEN i
    ELSE IF s[i] < 32 \/ s[i] = 92 THEN 0
    ELSE ScanString(s, i + 1)

ParseString(s, i) ==
    LET q == ScanString(s, i + 1)
    IN  IF q = 0 THEN ParseFail
        ELSE ParseOk(JSString(SubSeq(s, i + 1, q - 1)), q + 1)

\* obj[k] = v: a repeated name keeps its place and takes the last value
SetMember(members, k, v) ==
    IF \E x \in 1..Len(members) : members[x].k = k
    THEN [x \in 1..Len(members) |->
             IF members[x].k = k THEN [k |-> k, v |-> v] ELSE members[x]]
    ELSE Append(members, [k |-> k, v |-> v])

IsNullAt(s, i) ==
    i + 3 <= Len(s) /\ SubSeq(s, i, i + 3) = <<110, 117, 108, 108>>

RECURSIVE ParseValue(_, _)
RECURSIVE ParseMembers(_, _, _)
ParseValue(s, i) ==
    IF i > Len(s) THEN ParseFail
    ELSE IF s[i] = 110 THEN (IF IsNullAt(s, i) THEN ParseOk(JSNull, i + 4) ELSE ParseFail)
    ELSE IF s[i] = 34 THEN ParseString(s, i)
    ELSE IF IsDigit(s[i]) THEN ParseNumber(s, i)
    ELSE IF s[i] = 123
         THEN IF i + 1 <= Len(s) /\ s[i + 1] = 125
              THEN ParseOk(JSObject(<<>>), i + 2)
              ELSE ParseMembers(s, i + 1, <<>>)
    ELSE ParseFail

\* the members of an object from index i (after '{' or ','), given those read
ParseMembers(s, i, acc) ==
    IF i > Len(s) \/ s[i] # 34 THEN ParseFail
    ELSE LET key == ParseString(s, i)
         IN  IF ~key.ok \/ key.next > Len(s) \/ s[key.next] # 58 THEN ParseFail
             ELSE LET v == ParseValue(s, key.next + 1)
                      more == SetMember(acc, key.val.s, v.val)
                  IN  IF ~v.ok \/ v.next > Len(s) THEN ParseFail
                      ELSE IF s[v.next] = 44 THEN ParseMembers(s, v.next + 1, more)
                      ELSE IF s[v.next] = 125 THEN ParseOk(JSObject(more), v.next + 1)
                      ELSE ParseFail

\* JSON.parse(text): the value, or ok = FALSE for a SyntaxError
JSON_parse(text) ==
    LET r == ParseValue(text, 1)
    IN  IF r.ok /\ r.next = Len(text) + 1 THEN r ELSE ParseFail

(***************************************************************************)
(* JSON.stringify, which res.json applies to its argument (line 83).       *)
(***************************************************************************)
\* the decimal digits of n >= 0
RECURSIVE DecDigits(_)
DecDigits(n) ==
    IF n < 10 THEN <<48 + n>> ELSE DecDigits(n \div 10) \o <<48 + (n % 10)>>

RECURSIVE Zeros(_)
Zeros(k) == IF k <= 0 THEN <<>> ELSE <<48>> \o Zeros(k - 1)

\* Number::toString of the finite double m * 10^e, whose digits are ds and
\* whose decimal point stands after the n-th of them
NumberToString(m, e) ==
    IF m = 0 THEN <<48>>
    ELSE LET ds == DecDigits(m)
             k == Len(ds)
             n == k + e
             x == IF n >= 1 THEN <<43>> \o DecDigits(n - 1) ELSE <<45>> \o DecDigits(1 - n)
         IN  IF k <= n /\ n <= 21 THEN ds \o Zeros(n - k)
             ELSE IF 0 < n /\ n <= 21 THEN SubSeq(ds, 1, n) \o <<46>> \o SubSeq(ds, n + 1, k)
             ELSE IF -6 < n /\ n <= 0 THEN <<48, 46>> \o Zeros(0 - n) \o ds
             ELSE IF k = 1 THEN ds \o <<101>> \o x
             ELSE <<ds[1], 46>> \o Tail(ds) \o <<101>> \o x

RECURSIVE JSON_stringify(_)
RECURSIVE StringifyMembers(_, _)
JSON_stringify(v) ==
    IF v.t = "null" THEN <<110, 117, 108, 108>>
    ELSE IF v.t = "number"
         THEN IF v.fin THEN NumberToString(v.m, v.e) ELSE <<110, 117, 108, 108>>
    ELSE IF v.t = "string" THEN <<34>> \o v.s \o <<34>>
    ELSE <<123>> \o StringifyMembers(v.members, 1) \o <<125>>

StringifyMembers(members, x) ==
    IF x > Len(members) THEN <<>>
    ELSE (IF x > 1 THEN <<44>> ELSE <<>>)
         \o <<34>> \o members[x].k \o <<34, 58>> \o JSON_stringify(members[x].v)
         \o StringifyMembers(members, x + 1)

(***************************************************************************)
(* Values of req.body.email after express.json() (line 100): any JSON      *)
(* value, or undefined when the field is absent.                           *)
(***************************************************************************)
\* the code units of the email strings: @ (kept by the sanitization) and / (deleted)
EmailAlphabet == {64, 47}

StringsUpTo(alphabet, n) == UNION {[1..k -> alphabet] : k \in 0..n}

EmailStrings == {[t |-> "string", s |-> s] : s \in StringsUpTo(EmailAlphabet, MaxEmailLen)}

EmailNonStrings ==
    { [t |-> "undefined"], [t |-> "null"], [t |-> "number", n |-> 7],
      [t |-> "array", a |-> << <<64>> >>] }

EmailValues == EmailStrings \cup EmailNonStrings

\* !email
IsFalsy(v) ==
    \/ v.t \in {"undefined", "null"}
    \/ (v.t = "number" /\ v.n = 0)
    \/ (v.t = "boolean" /\ ~v.b)
    \/ (v.t = "string" /\ v.s = <<>>)

\* email.includes('@'): String.prototype.includes searches the code units,
\* Array.prototype.includes the elements; no other JSON value has the method
HasIncludes(v) == v.t \in {"string", "array"}

IncludesAt(v) ==
    IF v.t = "string" THEN \E i \in 1..Len(v.s) : v.s[i] = 64
    ELSE \E i \in 1..Len(v.a) : v.a[i] = <<64>>

\* only a string has .replace (line 109)
HasReplace(v) == v.t = "string"

\* the test of line 102 without its second operand (a plausible slip)
ValidationNoAtCheck(v) ==
    IF IsFalsy(v) THEN "reject" ELSE "pass"

\* if (!email || !email.includes('@'))  (line 102): the branch is taken
\* ("reject"), not taken ("pass"), or evaluating the test throws a TypeError
Validation(v) ==
    IF IsFalsy(v) THEN "reject"
    ELSE IF ~HasIncludes(v) THEN "throw"
    ELSE IF ~IncludesAt(v) THEN "reject"
    ELSE "pass"

\* the key built from the raw string (a plausible slip)
PutKeyRaw(v) == SUBSCRIPTIONS_PATH \o v.s

\* Key: s3Key  (lines 109-110, 116)
PutKey(v) == s3Key(v.s)

\* putObjectParams (lines 114-119); ContentType is 'text/plain'
putObjectParams(v) ==
    [op |-> "PutObject", Key |-> PutKey(v), Body |-> BodyOf(v.s), ContentType |-> "text/plain"]

\* getObjectParams (lines 65-68)
getObjectParams ==
    [op |-> "GetObject", Key |-> WEATHER_FILE_KEY, Body |-> <<>>, ContentType |-> ""]

NoCommand == [op |-> "none", Key |-> <<>>, Body |-> <<>>, ContentType |-> ""]

(***************************************************************************)
(* Responses and errors.                                                   *)
(***************************************************************************)
\* an HTTP response: its status, the fields of a {message[, error]} body and
\* the text of a JSON payload
Response(status, fields, text) == [status |-> status, fields |-> fields, text |-> text]
NoResponse == Response(0, {}, <<>>)

NoError == [name |-> "", message |-> ""]
S3Error(name) == [name |-> name, message |-> name]

\* errors s3Client.send rejects a GetObjectCommand with, whatever the key:
\* the store refuses, or it cannot be reached
GetErrors == {S3Error("AccessDenied"), S3Error("TimeoutError")}

\* the error s3Client.send rejects a PutObjectCommand with; the catch block
\* of POST /subscribe does not look at which it is
PutErrors == {S3Error("AccessDenied")}

\* res.status(200).json(weatherData)  (line 83)
WeatherOk(weatherData) == Response(200, {}, JSON_stringify(weatherData))

\* a catch block that answers 500 whatever the error (a plausible slip)
WeatherCatchAll500(error) == Response(500, {"message", "error"}, <<>>)

\* the catch block of GET /weather (lines 85-92)
WeatherCatch(error) ==
    IF error.name = "NoSuchKey"
    THEN Response(404, {"message"}, <<>>)
    ELSE Response(500, {"message", "error"}, <<>>)

\* res.status(400).json({ message })  (line 103)
SubscribeInvalid == Response(400, {"message"}, <<>>)

\* res.status(201).json({ message })  (line 126)
SubscribeOk == Response(201, {"message"}, <<>>)

\* a catch block that reports success (a plausible slip)
SubscribeCatchOk(error) == Response(201, {"message"}, <<>>)

\* the catch block of POST /subscribe (lines 128-131)
SubscribeCatch(error) == Response(500, {"message", "error"}, <<>>)

\* Express 5 passes a rejected handler promise to its default error handler,
\* which answers 500 with an HTML page
FrameworkError == Response(500, {}, <<>>)

(***************************************************************************)
(* Stored documents the external producer writes at WEATHER_FILE_KEY.      *)
(***************************************************************************)
\* {"weatherCode":2}
DocCode2 == <<123, 34, 119, 101, 97, 116, 104, 101, 114, 67, 111, 100, 101, 34, 58, 50, 125>>
\* {"weatherCode":2e308}
DocHuge == <<123, 34, 119, 101, 97, 116, 104, 101, 114, 67, 111, 100, 101, 34, 58, 50, 101, 51, 48, 56, 125>>
\* {"weatherCode":   (cut short)
DocCut == <<123, 34, 119, 101, 97, 116, 104, 101, 114, 67, 111, 100, 101, 34, 58>>

WeatherDocs == {DocCode2, DocHuge, DocCut}

(***************************************************************************)
(* State.                                                                  *)
(***************************************************************************)
Req == 1..NumReq

VARIABLES
    store,      \* the bucket: key -> [Body, ContentType], for the keys that exist
    pc,         \* where each request's handler is
    method,     \* "GET" (/weather) or "POST" (/subscribe), "" before arrival
    email,      \* req.body.email of a POST
    command,    \* the command the handler passed to s3Client.send
    sends,      \* the number of s3Client.send calls of the handler
    stream,     \* the content of s3Response.Body
    caught,     \* the error the handler's catch block received
    res,        \* the response sent
    lastPut,    \* key -> the request whose PutObject the store applied last
    produced,   \* what the external producer last wrote at WEATHER_FILE_KEY
    sanIn,      \* sanitization specification: the input string
    sanOut,     \*   its sanitized copy
    sanTwice,   \*   the sanitized copy sanitized again
    sanDone     \*   whether the copies are computed

serverVars == <<store, pc, method, email, command, sends, stream, caught, res, lastPut, produced>>
sanVars == <<sanIn, sanOut, sanTwice, sanDone>>
vars == <<store, pc, method, email, command, sends, stream, caught, res, lastPut, produced,
          sanIn, sanOut, sanTwice, sanDone>>

\* the bucket with obj at key
PutObject(bucket, key, obj) ==
    [k \in DOMAIN bucket \cup {key} |-> IF k = key THEN obj ELSE bucket[k]]

EmptyBucket == [k \in {} |-> [Body |-> <<>>, ContentType |-> ""]]

ServerInit ==
    /\ store = EmptyBucket
    /\ pc = [r \in Req |-> "idle"]
    /\ method = [r \in Req |-> ""]
    /\ email = [r \in Req |-> [t |-> "undefined"]]
    /\ command = [r \in Req |-> NoCommand]
    /\ sends = [r \in Req |-> 0]
    /\ stream = [r \in Req |-> <<>>]
    /\ caught = [r \in Req |-> NoError]
    /\ res = [r \in Req |-> NoResponse]
    /\ lastPut = [k \in {} |-> 0]
    /\ produced = [written |-> FALSE, Body |-> <<>>]

SanIdle ==
    /\ sanIn = <<>>
    /\ sanOut = <<>>
    /\ sanTwice = <<>>
    /\ sanDone = FALSE

Init == ServerInit /\ SanIdle

\* requests arrive in the order of their numbers
MayArrive(r) ==
    /\ pc[r] = "idle"
    /\ \A q \in Req : q < r => pc[q] # "idle"

(***************************************************************************)
(* GET /weather (lines 62-93).                                             *)
(***************************************************************************)
\* the request arrives; the handler runs to `await s3Client.send(command)`
GetWeather(r) ==
    /\ MayArrive(r)
    /\ method' = [method EXCEPT ![r] = "GET"]
    /\ command' = [command EXCEPT ![r] = getObjectParams]
    /\ sends' = [sends EXCEPT ![r] = @ + 1]
    /\ pc' = [pc EXCEPT ![r] = "get_wait"]
    /\ UNCHANGED <<store, email, stream, caught, res, lastPut, produced, sanVars>>

\* the store finds the object; s3Response.Body will deliver the content the
\* object has now, and the handler awaits streamToString
S3GetObjectOk(r) ==
    /\ pc[r] = "get_wait"
    /\ command[r].Key \in DOMAIN store
    /\ stream' = [stream EXCEPT ![r] = store[command[r].Key].Body]
    /\ pc' = [pc EXCEPT ![r] = "streaming"]
    /\ UNCHANGED <<store, method, email, command, sends, caught, res, lastPut, produced, sanVars>>

\* s3Client.send rejects: NoSuchKey when no object is at the key, or an error
\* of the store or the network; the catch block answers
S3GetObjectFail(r) ==
    /\ pc[r] = "get_wait"
    /\ \E error \in GetErrors \cup
                    (IF command[r].Key \in DOMAIN store THEN {} ELSE {S3Error("NoSuchKey")}) :
          /\ caught' = [caught EXCEPT ![r] = error]
          /\ res' = [res EXCEPT ![r] = WeatherCatch(error)]
    /\ pc' = [pc EXCEPT ![r] = "done"]
    /\ UNCHANGED <<store, method, email, command, sends, stream, lastPut, produced, sanVars>>

\* the body stream ends: streamToString resolves (line 52), the content is
\* parsed and sent, or JSON.parse throws a SyntaxError into the catch block
StreamEnd(r) ==
    /\ pc[r] = "streaming"
    /\ LET contentString == stream[r]
           parsed == JSON_parse(contentString)
           error == [name |-> "SyntaxError", message |-> "Unexpected end of JSON input"]
       IN  IF parsed.ok
           THEN /\ res' = [res EXCEPT ![r] = WeatherOk(parsed.val)]
                /\ UNCHANGED caught
           ELSE /\ caught' = [caught EXCEPT ![r] = error]
                /\ res' = [res EXCEPT ![r] = WeatherCatch(error)]
    /\ pc' = [pc EXCEPT ![r] = "done"]
    /\ UNCHANGED <<store, method, email, command, sends, stream, lastPut, produced, sanVars>>

\* the body stream emits 'error': streamToString rejects (line 51) and the
\* chunks read so far are dropped
StreamError(r) ==
    /\ pc[r] = "streaming"
    /\ LET error == [name |-> "Error", message |-> "aborted"]
       IN  /\ caught' = [caught EXCEPT ![r] = error]
           /\ res' = [res EXCEPT ![r] = WeatherCatch(error)]
    /\ stream' = [stream EXCEPT ![r] = <<>>]
    /\ pc' = [pc EXCEPT ![r] = "done"]
    /\ UNCHANGED <<store, method, email, command, sends, lastPut, produced, sanVars>>

(***************************************************************************)
(* POST /subscribe (lines 99-132).  The handler runs without interruption  *)
(* from its first line to `await s3Client.send(command)`.                  *)
(***************************************************************************)
\* the test of line 102 holds: 400
SubscribeReject(r) ==
    /\ MayArrive(r)
    /\ \E v \in EmailValues :
          /\ Validation(v) = "reject"
          /\ email' = [email EXCEPT ![r] = v]
    /\ method' = [method EXCEPT ![r] = "POST"]
    /\ res' = [res EXCEPT ![r] = SubscribeInvalid]
    /\ pc' = [pc EXCEPT ![r] = "done"]
    /\ UNCHANGED <<store, command, sends, stream, caught, lastPut, produced, sanVars>>

\* email.includes (line 102) or email.replace (line 109) is not a function:
\* the TypeError is thrown outside the try block and rejects the handler's
\* promise.  Express 4 ignores the promise and the request gets no response;
\* Express 5 answers 500 from its default error handler.
SubscribeThrow(r) ==
    /\ MayArrive(r)
    /\ \E v \in EmailValues :
          /\ \/ Validation(v) = "throw"
             \/ Validation(v) = "pass" /\ ~HasReplace(v)
          /\ email' = [email EXCEPT ![r] = v]
    /\ method' = [method EXCEPT ![r] = "POST"]
    /\ \/ /\ pc' = [pc EXCEPT ![r] = "unhandled"]
          /\ UNCHANGED res
       \/ /\ pc' = [pc EXCEPT ![r] = "done"]
          /\ res' = [res EXCEPT ![r] = FrameworkError]
    /\ UNCHANGED <<store, command, sends, stream, caught, lastPut, produced, sanVars>>

\* the email passes: the PutObjectCommand is sent (lines 109-124)
SubscribeSend(r) ==
    /\ MayArrive(r)
    /\ \E v \in EmailValues :
          /\ Validation(v) = "pass"
          /\ HasReplace(v)
          /\ email' = [email EXCEPT ![r] = v]
          /\ command' = [command EXCEPT ![r] = putObjectParams(v)]
    /\ method' = [method EXCEPT ![r] = "POST"]
    /\ sends' = [sends EXCEPT ![r] = @ + 1]
    /\ pc' = [pc EXCEPT ![r] = "put_wait"]
    /\ UNCHANGED <<store, stream, caught, res, lastPut, produced, sanVars>>

\* the store applies the write: the object at the key is replaced as a whole
S3PutObjectOk(r) ==
    /\ pc[r] = "put_wait"
    /\ store' = PutObject(store, command[r].Key,
                          [Body |-> command[r].Body, ContentType |-> command[r].ContentType])
    /\ lastPut' = PutObject(lastPut, command[r].Key, r)
    /\ pc' = [pc EXCEPT ![r] = "put_acked"]
    /\ UNCHANGED <<method, email, command, sends, stream, caught, res, produced, sanVars>>

\* the store refuses the write, which is not applied; s3Client.send rejects
\* and the catch block answers
S3PutObjectFail(r) ==
    /\ pc[r] = "put_wait"
    /\ \E error \in PutErrors :
          /\ caught' = [caught EXCEPT ![r] = error]
          /\ res' = [res EXCEPT ![r] = SubscribeCatch(error)]
    /\ pc' = [pc EXCEPT ![r] = "done"]
    /\ UNCHANGED <<store, method, email, command, sends, stream, lastPut, produced, sanVars>>

\* the store's acknowledgement arrives: s3Client.send resolves, line 126
SubscribeResume(r) ==
    /\ pc[r] = "put_acked"
    /\ res' = [res EXCEPT ![r] = SubscribeOk]
    /\ pc' = [pc EXCEPT ![r] = "done"]
    /\ UNCHANGED <<store, method, email, command, sends, stream, caught, lastPut, produced, sanVars>>

(***************************************************************************)
(* The external producer overwrites the weather document.                  *)
(***************************************************************************)
Produce ==
    /\ \E doc \in WeatherDocs :
          /\ store' = PutObject(store, WEATHER_FILE_KEY,
                                [Body |-> doc, ContentType |-> "application/json"])
          /\ produced' = [written |-> TRUE, Body |-> doc]
    /\ UNCHANGED <<pc, method, email, command, sends, stream, caught, res, lastPut, sanVars>>

Next ==
    \/ \E r \in Req : GetWeather(r)
    \/ \E r \in Req : S3GetObjectOk(r)
    \/ \E r \in Req : S3GetObjectFail(r)
    \/ \E r \in Req : StreamEnd(r)
    \/ \E r \in Req : StreamError(r)
    \/ \E r \in Req : SubscribeReject(r)
    \/ \E r \in Req : SubscribeThrow(r)
    \/ \E r \in Req : SubscribeSend(r)
    \/ \E r \in Req : S3PutObjectOk(r)
    \/ \E r \in Req : S3PutObjectFail(r)
    \/ \E r \in Req : SubscribeResume(r)
    \/ Produce

Spec == Init /\ [][Next]_vars

(***************************************************************************)
(* The sanitization specification: line 109 applied to every string of     *)
(* SanAlphabet up to MaxStrLen, and applied again to its result.           *)
(***************************************************************************)
\* space ! , - . / 0 9 : < @ A Z [ _ ` a z {
SanAlphabet == {32, 33, 44, 45, 46, 47, 48, 57, 58, 60, 64, 65, 90, 91, 95, 96, 97, 122, 123}

SanInit ==
    /\ ServerInit
    /\ sanIn \in StringsUpTo(SanAlphabet, MaxStrLen)
    /\ sanOut = <<>>
    /\ sanTwice = <<>>
    /\ sanDone = FALSE

Sanitize ==
    /\ ~sanDone
    /\ sanOut' = sanitizedEmail(sanIn)
    /\ sanTwice' = sanitizedEmail(sanitizedEmail(sanIn))
    /\ sanDone' = TRUE
    /\ UNCHANGED <<sanIn, serverVars>>

SanNext == Sanitize

SpecSanitize == SanInit /\ [][SanNext]_vars

(***************************************************************************)
(* Vocabulary of the properties.                                           *)
(***************************************************************************)
Done(r) == pc[r] = "done"
IsGet(r) == method[r] = "GET"
IsPost(r) == method[r] = "POST"

\* the string holds the character '@'
HasAt(s) == \E i \in 1..Len(s) : s[i] = 64

\* the characters a-z, A-Z, 0-9, '-', '_', '.', '@'
AllowedChars == (97..122) \cup (65..90) \cup (48..57) \cup {45, 95, 46, 64}

IsAllowed(c) == c \in AllowedChars

\* the request is a POST whose email is a string that holds '@'
PostsStringWithAt(r) == IsPost(r) /\ email[r].t = "string" /\ HasAt(email[r].s)

\* s3Client.send of the request's PutObjectCommand has resolved
PutResolved(r) == IsPost(r) /\ Done(r) /\ command[r].op = "PutObject" /\ caught[r] = NoError

TextPlain(body) == [Body |-> body, ContentType |-> "text/plain"]

(***************************************************************************)
(* C1: a POST /subscribe whose email is absent, empty or a string without  *)
(* '@' is answered 400 with a {message} body, and its handler has issued   *)
(* no store call: no command was built or sent and no object of the bucket *)
(* was written by it.                                                      *)
(***************************************************************************)
C1_Invalid(v) ==
    \/ v.t = "undefined"
    \/ v.t = "string" /\ (v.s = <<>> \/ ~HasAt(v.s))

C1_InvalidEmailIs400WithoutWrite ==
    \A r \in Req :
        (IsPost(r) /\ C1_Invalid(email[r])) =>
            /\ Done(r)
            /\ res[r] = Response(400, {"message"}, <<>>)
            /\ sends[r] = 0
            /\ command[r].op = "none"
            /\ \A k \in DOMAIN lastPut : lastPut[k] # r

\* a non-empty string without '@' was rejected while another request's write
\* is in the bucket
C1_Witness ==
    \E r, q \in Req :
        /\ IsPost(r) /\ email[r].t = "string" /\ email[r].s # <<>> /\ ~HasAt(email[r].s)
        /\ res[r].status = 400
        /\ \E k \in DOMAIN lastPut : lastPut[k] = q

C3_RoundTrip ==
    \A r \in Req :
        (IsGet(r) /\ Done(r) /\ caught[r] = NoError /\ JSON_parse(stream[r]).ok) =>
            /\ res[r].status = 200
            /\ JSON_parse(res[r].text).ok
            /\ JSON_parse(res[r].text).val = JSON_parse(stream[r]).val

(***************************************************************************)
(* C4: a GET /weather that failed is answered 404 {message} exactly when   *)
(* the error caught is the store's NoSuchKey, which the store raises only  *)
(* for an absent key, and 500 {message, error} for every other error; the  *)
(* handler has sent one command, no more.                                  *)
(***************************************************************************)
C4_NotFoundIs404OtherFailuresAre500 ==
    \A r \in Req :
        (IsGet(r) /\ Done(r) /\ (caught[r] # NoError \/ res[r].status # 200)) =>
            /\ caught[r] # NoError
            /\ res[r].status = 404 <=> caught[r].name = "NoSuchKey"
            /\ res[r].status = 404 => res[r] = Response(404, {"message"}, <<>>)
            /\ res[r].status # 404 => res[r] = Response(500, {"message", "error"}, <<>>)
            /\ sends[r] = 1

\* one request was answered 404 and another 500 for content that is no JSON
C4_Witness ==
    \E r, q \in Req :
        /\ IsGet(r) /\ res[r].status = 404 /\ caught[r].name = "NoSuchKey"
        /\ IsGet(q) /\ res[q].status = 500 /\ caught[q].name = "SyntaxError"

(***************************************************************************)
(* C5: when the PutObject of a POST /subscribe is rejected, the answer is  *)
(* 500 {message, error}, the handler has sent that one command only, and   *)
(* the request is never answered 201.                                      *)
(***************************************************************************)
C5_FailedWriteIs500 ==
    \A r \in Req :
        (IsPost(r) /\ caught[r] # NoError) =>
            /\ Done(r)
            /\ command[r].op = "PutObject"
            /\ res[r] = Response(500, {"message", "error"}, <<>>)
            /\ sends[r] = 1

\* a write was rejected while another request's write was acknowledged
C5_Witness ==
    \E r, q \in Req :
        /\ IsPost(r) /\ caught[r].name = "AccessDenied" /\ res[r].status = 500
        /\ IsPost(q) /\ res[q].status = 201

(***************************************************************************)
(* C6, as stated: no request is left without a response by an error that   *)
(* nothing catches, and every response carries a documented status:        *)
(* 200, 404 or 500 for GET /weather, 201, 400 or 500 for POST /subscribe.  *)
(***************************************************************************)
C6_EveryErrorCaught ==
    \A r \in Req :
        /\ pc[r] # "unhandled"
        /\ (Done(r) /\ IsGet(r)) => res[r].status \in {200, 404, 500}
        /\ (Done(r) /\ IsPost(r)) => res[r].status \in {201, 400, 500}

(***************************************************************************)
(* C7: the sanitized copy of a string is the string's characters that are  *)
(* in [A-Za-z0-9-_.@], in their order, and sanitizing it again leaves it   *)
(* as it is.                                                               *)
(***************************************************************************)
C7_SanitizeFiltersAndIsIdempotent ==
    sanDone =>
        /\ sanOut = SelectSeq(sanIn, IsAllowed)
        /\ sanTwice = sanOut

\* a string of which one character was deleted and one kept
C7_Witness ==
    /\ sanDone
    /\ Len(sanIn) = 2
    /\ Len(sanOut) = 1

(***************************************************************************)
(* C8: when the PutObject commands of two POST /subscribe requests to the  *)
(* same key have both resolved, both are answered 201 and the one object   *)
(* at the key holds the original email of the request whose write the      *)
(* store applied last, whatever the order of arrival.                      *)
(***************************************************************************)
C8_LastWriteWins ==
    \A r, q \in Req :
        (r # q /\ PutResolved(r) /\ PutResolved(q) /\ command[r].Key = command[q].Key) =>
            LET key == command[r].Key
            IN  /\ res[r].status = 201
                /\ res[q].status = 201
                /\ key \in DOMAIN store
                /\ command[lastPut[key]].Key = key
                /\ store[key] = TextPlain(email[lastPut[key]].s)

\* two different emails collided on one key, and the write of the request
\* that arrived first was applied last
C8_Witness ==
    \E r, q \in Req :
        /\ r < q
        /\ PutResolved(r) /\ PutResolved(q)
        /\ command[r].Key = command[q].Key
        /\ email[r] # email[q]
        /\ lastPut[command[r].Key] = r
        /\ store[command[r].Key].Body = email[r].s

(***************************************************************************)
(* C9, as stated: a handler that has ended has made exactly one store call *)
(* if it is GET /weather or a POST /subscribe whose email passed the test  *)
(* of line 102, and a request with a response has no call outstanding.     *)
(***************************************************************************)
C9_ExactlyOneStoreCall ==
    \A r \in Req :
        /\ (pc[r] \in {"done", "unhandled"}
              /\ (IsGet(r) \/ (IsPost(r) /\ Validation(email[r]) = "pass")))
           => sends[r] = 1
        /\ sends[r] <= 1
        /\ pc[r] \in {"get_wait", "streaming", "put_wait", "put_acked"} => res[r] = NoResponse

(***************************************************************************)
(* C10: every PutObject the service has sent has a key subscribers/<s>     *)
(* with s non-empty, holding '@', made of characters of [a-zA-Z0-9-_.@]    *)
(* only and so without '/'; a GET /weather sends no PutObject; the object  *)
(* at daily-data/prediction.json is what the external producer last wrote, *)
(* and every other object of the bucket is at the key of such a command.   *)
(***************************************************************************)
C10_KeyOfSubscriber(key) ==
    LET n == Len(SUBSCRIPTIONS_PATH)
        s == SubSeq(key, n + 1, Len(key))
    IN  /\ Len(key) > n
        /\ SubSeq(key, 1, n) = SUBSCRIPTIONS_PATH
        /\ HasAt(s)
        /\ \A i \in 1..Len(s) : s[i] \in AllowedChars /\ s[i] # 47

=============================================================================
